---- MODULE Spec2Model ----
(***************************************************************************)
(* vmml::tucker3_tensor< J1, J2, J3, I1, I2, I3, T >                       *)
(* (include/vmmlib/tucker3_tensor.hpp).                                    *)
(*                                                                         *)
(* A tucker3 tensor is a core tensor _core (J1 x J2 x J3) and three basis  *)
(* matrices _u1, _u2, _u3 (I_k x J_k).  The module models                  *)
(*   - the structure editors subsampling, subsampling_on_average and       *)
(*     region_of_interest, one step per loop iteration,                    *)
(*   - progressive_rank_reduction,                                         *)
(*   - derive_core, hosvd and decomposition.                               *)
(*                                                                         *)
(* Conventions.                                                            *)
(*   - Rows, columns and tensor cells are indexed from 0, as in the code.  *)
(*     A matrix is a function  row index -> row ; a row is a function      *)
(*     column index -> value.  A tensor3 is a function over index triples  *)
(*     <<j1, j2, j3>>.                                                     *)
(*   - The template parameters are values fixed for a whole behaviour      *)
(*     (the variables J, I, K, never changed by an action).                *)
(*   - T is modelled by the integers.  Every value the editors read is a   *)
(*     multiple of Scale, so that every mean subsampling_on_average forms  *)
(*     is a whole number and the division  tmp_row /= num_items_averaged   *)
(*     is exact in T as well.  factor and the region indices, which the    *)
(*     code takes as T, are whole non-negative values.                     *)
(*   - assert() is compiled in: a false assertion ends the call            *)
(*     (pc = "failed") at that point.                                      *)
(*   - size_t is modelled at the width SizeMax (arithmetic modulo          *)
(*     SizeMax), wide enough that no index the code forms from the         *)
(*     bounded inputs wraps unless a loop runs without end.                *)
(***************************************************************************)
EXTENDS Integers, Sequences, FiniteSets

VARIABLES
    op,       \* the member function being executed
    J,        \* <<J1, J2, J3>>: the ranks of the destination (*this)
    I,        \* <<I1, I2, I3>>: the extents of the destination (*this)
    K,        \* <<K1, K2, K3>>: the template parameters of `other`
    arg,      \* the call's run-time arguments
    other,    \* the source decomposition: [core, u]
    _core,    \* this->_core
    _u,       \* <<this->_u1, this->_u2, this->_u3>>
    pc,       \* the position in the member function
    ik,       \* the source index of the running loop (i1, i2, i3; j1, j2, j3)
    i,        \* the destination row index of the running loop
    oob,      \* TRUE once set_row was called with a row index outside the matrix
    calls,    \* per mode, the number of set_row calls its finished loop made
    data,     \* the tensor3 data_ of derive_core / hosvd / decomposition
    ok,       \* hosvd's local `ok`, and the flags the three solver calls returned
    writes    \* how often each core cell was assigned by derive_core

vars == <<op, J, I, K, arg, other, _core, _u, pc, ik, i, oob, calls, data, ok, writes>>

----------------------------------------------------------------------------
(* Bounds of the model *)

\* the largest extent (rows of a basis) and the largest region index drawn
MaxExt == 3
\* the largest subsampling factor drawn
MaxFactor == 3
\* the largest rank (columns of a basis, extent of a core) drawn
MaxRank == 3
\* the largest extent drawn where the ranks vary
MaxRows == 2
\* the width of size_t in the model: arithmetic on size_t is modulo SizeMax
SizeMax == 8

Modes == 1..3

RECURSIVE Factorial(_)
Factorial(n) == IF n <= 1 THEN 1 ELSE n * Factorial(n - 1)

\* every value of a source basis is a multiple of Scale
Scale == Factorial(MaxExt + 1)

Ceil(a, b) == (a + b - 1) \div b

Min(a, b) == IF a < b THEN a ELSE b

----------------------------------------------------------------------------
(* The containers (vmmlib/matrix.hpp, vmmlib/vector.hpp, vmmlib/tensor3.hpp) *)

Indices(n) == 0..(n - 1)

Cells(dims) == { <<a, b, c>> : a \in Indices(dims[1]), b \in Indices(dims[2]),
                               c \in Indices(dims[3]) }

\* matrix::get_row
get_row(m, r) == m[r]

\* matrix::set_row with the row index inside the matrix
set_row(m, r, v) == [m EXCEPT ![r] = v]

\* matrix::get_column
get_column(m, c) == [r \in DOMAIN m |-> m[r][c]]

\* matrix::set_column with the column index inside the matrix
set_column(m, c, v) == [r \in DOMAIN m |-> [m[r] EXCEPT ![c] = v[r]]]

\* vector::operator+=
VecAdd(a, b) == [c \in DOMAIN a |-> a[c] + b[c]]

\* vector::operator/=
VecDiv(a, n) == [c \in DOMAIN a |-> a[c] \div n]

\* the value at (row r, column c) of the source basis of mode k
SrcValue(k, r, c) == Scale * ((r + 1) * (r + 1) + 50 * c + 200 * k)

\* a source basis with rows x cols entries, all distinct
SrcBasis(k, rows, cols) ==
    [r \in Indices(rows) |-> [c \in Indices(cols) |-> SrcValue(k, r, c)]]

\* a source core, all cells distinct and positive
SrcCore(dims) == [x \in Cells(dims) |-> 1 + x[1] + 4 * x[2] + 16 * x[3]]

\* the destination before the call: values no source holds
DstBasis(rows, cols) == [r \in Indices(rows) |-> [c \in Indices(cols) |-> 0 - (r + 1)]]

DstCore(dims) == [x \in Cells(dims) |-> 0 - 1]

DstBases(ext, rank) == [k \in Modes |-> DstBasis(ext[k], rank[k])]

\* the ranks of the decompositions the structure editors are run on
EditRank == <<2, 1, 1>>

Extents == [Modes -> 1..MaxExt]

NoData == <<>>

NoIndex == [k \in Modes |-> 0]

----------------------------------------------------------------------------
(* The structure editors: subsampling, subsampling_on_average,             *)
(* region_of_interest                                                      *)

LoopPc == <<"u1", "u2", "u3">>

\* where control goes when the loop of mode k ends
AfterLoop(k) == IF k < 3 THEN LoopPc[k + 1] ELSE "core"

InitEditor(o, a) ==
    /\ op = o
    /\ arg = a
    /\ J = EditRank
    /\ I \in Extents
    /\ K \in Extents
    /\ other = [core |-> SrcCore(J), u |-> [k \in Modes |-> SrcBasis(k, K[k], J[k])]]
    /\ _core = DstCore(J)
    /\ _u = DstBases(I, J)
    /\ pc = "assert"
    /\ ik = 0
    /\ i = 0
    /\ oob = FALSE
    /\ calls = NoIndex
    /\ data = NoData
    /\ ok = <<>>
    /\ writes = <<>>

InitSub ==
    \E o \in {"subsampling", "subsampling_on_average"}, f \in 0..MaxFactor :
        InitEditor(o, [factor |-> f, start |-> NoIndex, end |-> NoIndex])

InitRoi ==
    \E s \in [Modes -> 0..(MaxExt - 1)], e \in [Modes -> 1..MaxExt] :
        InitEditor("region_of_interest", [factor |-> 0, start |-> s, end |-> e])

\* lines 283-285, 315-317, 371-373: the extents asserted by the three editors
ExtentAssertions == I[1] <= K[1] /\ I[1] <= K[2] /\ I[1] <= K[3]

\* lines 374-379: the region asserted by region_of_interest
RegionAssertions ==
    /\ \A k \in Modes : arg.start[k] < arg.end[k]
    /\ \A k \in Modes : arg.end[k] < K[k]

Assertions ==
    IF op = "region_of_interest" THEN ExtentAssertions /\ RegionAssertions
    ELSE ExtentAssertions

\* the first index of the loop of mode k
FirstIndex(k) == IF op = "region_of_interest" THEN arg.start[k] ELSE 0

\* the assertions at the head of an editor: the call goes on to the first loop,
\* or ends there
CheckAssertions ==
    /\ pc = "assert"
    /\ op \in {"subsampling", "subsampling_on_average", "region_of_interest"}
    /\ IF Assertions
       THEN pc' = "u1" /\ ik' = FirstIndex(1) /\ i' = 0
       ELSE pc' = "failed" /\ ik' = ik /\ i' = i
    /\ UNCHANGED <<op, J, I, K, arg, other, _core, _u, oob, calls, data, ok, writes>>

\* _uk.set_row( r, v ), followed by the loop's increment  ik += step, ++i .
\* With r < I_k the row is stored.  With r >= I_k the write is outside the
\* matrix: it lands outside the tensor, or on some row of the matrix, or the
\* accessor's check ends the call.
StoreRow(k, r, v, step) ==
    IF r < I[k]
    THEN /\ _u' = [_u EXCEPT ![k] = set_row(_u[k], r, v)]
         /\ ik' = (ik + step) % SizeMax
         /\ i' = (i + 1) % SizeMax
         /\ UNCHANGED <<oob, pc, calls>>
    ELSE /\ oob' = TRUE
         /\ calls' = calls
         /\ \/ /\ _u' = _u
               /\ ik' = (ik + step) % SizeMax
               /\ i' = (i + 1) % SizeMax
               /\ pc' = pc
            \/ /\ \E q \in Indices(I[k]) : _u' = [_u EXCEPT ![k] = set_row(_u[k], q, v)]
               /\ ik' = (ik + step) % SizeMax
               /\ i' = (i + 1) % SizeMax
               /\ pc' = pc
            \/ /\ pc' = "trap"
               /\ UNCHANGED <<_u, ik, i>>

\* the end of the loop of mode k
LeaveLoop(k) ==
    /\ pc' = AfterLoop(k)
    /\ ik' = IF k < 3 THEN FirstIndex(k + 1) ELSE 0
    /\ i' = 0
    /\ calls' = [calls EXCEPT ![k] = i]
    /\ UNCHANGED <<_u, oob>>

\* lines 289-292, 295-298, 301-304
SubsamplingLoop(k) ==
    /\ op = "subsampling"
    /\ pc = LoopPc[k]
    /\ IF ik < K[k]
       THEN StoreRow(k, i, get_row(other.u[k], ik), arg.factor)
       ELSE LeaveLoop(k)
    /\ UNCHANGED <<op, J, I, K, arg, other, _core, data, ok, writes>>

\* lines 324-329: the row tmp_row holds after the inner loop and the division
RECURSIVE SumRows(_, _, _)
SumRows(m, from, to) ==
    IF from = to THEN get_row(m, from)
    ELSE VecAdd(SumRows(m, from, to - 1), get_row(m, to))

\* the last row the inner loop  j < factor + ik  &  j < K_k  adds
LastAveraged(k) == IF arg.factor = 0 THEN ik ELSE Min(ik + arg.factor, K[k]) - 1

AveragedRow(k) ==
    VecDiv(SumRows(other.u[k], ik, LastAveraged(k)), LastAveraged(k) - ik + 1)

\* the row handed to set_row: tmp_row at line 330, u2.get_row( i2 ) at line 342,
\* u3.get_row( i3 ) at line 354
StoredRow(k) == IF k = 1 THEN AveragedRow(k) ELSE get_row(other.u[k], ik)

\* lines 322-331, 334-343, 346-355
AverageLoop(k) ==
    /\ op = "subsampling_on_average"
    /\ pc = LoopPc[k]
    /\ IF ik < K[k]
       THEN StoreRow(k, i, StoredRow(k), arg.factor)
       ELSE LeaveLoop(k)
    /\ UNCHANGED <<op, J, I, K, arg, other, _core, data, ok, writes>>

\* lines 383-386, 389-392, 395-398
RoiLoop(k) ==
    /\ op = "region_of_interest"
    /\ pc = LoopPc[k]
    /\ IF ik < arg.end[k]
       THEN StoreRow(k, i, get_row(other.u[k], ik), 1)
       ELSE LeaveLoop(k)
    /\ UNCHANGED <<op, J, I, K, arg, other, _core, data, ok, writes>>

\* lines 306, 357, 400: _core = other.get_core()
CopyCore ==
    /\ pc = "core"
    /\ op \in {"subsampling", "subsampling_on_average", "region_of_interest"}
    /\ _core' = other.core
    /\ pc' = "done"
    /\ UNCHANGED <<op, J, I, K, arg, other, _u, ik, i, oob, calls, data, ok, writes>>

NextSub ==
    \/ CheckAssertions
    \/ \E k \in Modes : SubsamplingLoop(k)
    \/ \E k \in Modes : AverageLoop(k)
    \/ CopyCore

NextEdit ==
    \/ NextSub
    \/ \E k \in Modes : RoiLoop(k)

InitEdit == InitSub \/ InitRoi

\* the three structure editors
Spec == InitEdit /\ [][NextEdit]_vars

\* the two subsampling editors; a call that is running takes its next step
FairSub == InitSub /\ [][NextSub]_vars /\ WF_vars(NextSub)

----------------------------------------------------------------------------
(* The claims about the structure editors *)

Editors == {"subsampling", "subsampling_on_average", "region_of_interest"}

\* the destination as it was before the call
Untouched == _u = DstBases(I, J) /\ _core = DstCore(J)

\* row r of the destination basis k exists and holds v
RowIs(k, r, v) == r \in DOMAIN _u[k] /\ _u[k][r] = v

\* the sum of f[x] over the finite set S of integers
RECURSIVE SumOver(_, _)
SumOver(S, f) ==
    IF S = {} THEN 0
    ELSE LET x == CHOOSE y \in S : \A z \in S : y <= z
         IN f[x] + SumOver(S \ {x}, f)

\* the unweighted mean of the n rows s, s + 1, .., s + n - 1 of matrix m
MeanOfRows(m, s, n) ==
    [c \in DOMAIN m[s] |->
        SumOver(s..(s + n - 1), [r \in s..(s + n - 1) |-> m[r][c]]) \div n]

\* C1: when an accepted region_of_interest call has returned, row r of the
\* destination basis k is row start_k + r of the source basis k, for every mode k
\* and every r in 0 .. end_k - start_k - 1, and the destination core is the
\* source core.
C1_RoiCopiesRows ==
    (op = "region_of_interest" /\ pc = "done") =>
        /\ \A k \in Modes : \A r \in 0..(arg.end[k] - arg.start[k] - 1) :
               RowIs(k, r, other.u[k][arg.start[k] + r])
        /\ _core = other.core

\* the call of C2: the full extent [0, K_k) of every mode, into a destination of
\* the same extents
FullExtentCall ==
    /\ op = "region_of_interest"
    /\ \A k \in Modes : arg.start[k] = 0 /\ arg.end[k] = K[k] /\ I[k] = K[k]

\* C2: region_of_interest over the full extent is accepted, and when it has
\* returned the destination's core and bases are the source's.
C2_FullExtentIsIdentity ==
    (FullExtentCall /\ pc # "assert") =>
        /\ pc # "failed"
        /\ pc = "done" => (_u = other.u /\ _core = other.core)

\* C3: when subsampling_on_average with factor f >= 1 has returned, row r of the
\* destination basis k is the unweighted mean of the min(f, K_k - r*f) source
\* rows from r*f on, for every mode k and every r with r*f < K_k, and the
\* destination core is the source core.
C3_AverageStoresMean ==
    (op = "subsampling_on_average" /\ pc = "done" /\ arg.factor >= 1) =>
        /\ \A k \in Modes : \A r \in Indices(K[k]) :
               r * arg.factor < K[k] =>
                   RowIs(k, r, MeanOfRows(other.u[k], r * arg.factor,
                                          Min(arg.factor, K[k] - r * arg.factor)))
        /\ _core = other.core

\* C4: when subsampling with factor f >= 1 has returned, it has written exactly
\* ceil(K_k / f) rows per mode, row r of the destination basis k is row r*f of the
\* source basis k for every r in 0 .. ceil(K_k / f) - 1, and the destination core
\* is the source core.
C4_SubsamplingCopiesStride ==
    (op = "subsampling" /\ pc = "done" /\ arg.factor >= 1) =>
        /\ \A k \in Modes :
               /\ calls[k] = Ceil(K[k], arg.factor)
               /\ \A r \in Indices(Ceil(K[k], arg.factor)) :
                      RowIs(k, r, other.u[k][r * arg.factor])
        /\ _core = other.core

\* the shape preconditions of the editors: I_k <= K_k for every mode and, for
\* region_of_interest, start_k < end_k <= K_k for every mode
ShapeMismatch ==
    \/ \E k \in Modes : I[k] > K[k]
    \/ /\ op = "region_of_interest"
       /\ \E k \in Modes : ~(arg.start[k] < arg.end[k] /\ arg.end[k] <= K[k])

\* C6: an editor call with a shape mismatch is reported as a failure and leaves
\* the destination's core and bases as they were.
C6_MismatchRejected ==
    (op \in Editors /\ pc # "assert" /\ ShapeMismatch) =>
        (pc = "failed" /\ Untouched)

\* C9: a call of an editor that passed its assertions hands set_row only row
\* indices inside the destination basis (here for every factor >= 1 and every
\* region), so the loop of mode k makes at most I_k calls.
C9_NoRowOutOfBounds ==
    (op \in Editors /\ (op = "region_of_interest" \/ arg.factor >= 1)) =>
        /\ ~oob
        /\ \A k \in Modes : calls[k] <= I[k]

\* C10: each of the three row loops of subsampling and subsampling_on_average is
\* left again, whatever the factor.
C10_LoopsTerminate ==
    \A k \in Modes : (pc = LoopPc[k]) ~> (pc # LoopPc[k])

----------------------------------------------------------------------------
(* progressive_rank_reduction: here K are the ranks K1, K2, K3 of `other`,  *)
(* whose extents are those of the destination                              *)

Ranks == [Modes -> 1..MaxRank]

InitRank ==
    /\ op = "progressive_rank_reduction"
    /\ arg = <<>>
    /\ J \in Ranks
    /\ K \in Ranks
    /\ I \in [Modes -> 1..MaxRows]
    /\ other = [core |-> SrcCore(K), u |-> [k \in Modes |-> SrcBasis(k, I[k], K[k])]]
    /\ _core = DstCore(J)
    /\ _u = DstBases(I, J)
    /\ pc = "assert"
    /\ ik = 0
    /\ i = 0
    /\ oob = FALSE
    /\ calls = NoIndex
    /\ data = NoData
    /\ ok = <<>>
    /\ writes = <<>>

\* lines 237-239
RankAssertions == J[1] <= K[1] /\ J[2] <= K[2] /\ J[3] <= K[3]

CheckRankAssertions ==
    /\ pc = "assert"
    /\ op = "progressive_rank_reduction"
    /\ pc' = IF RankAssertions THEN "u1" ELSE "failed"
    /\ UNCHANGED <<op, J, I, K, arg, other, _core, _u, ik, i, oob, calls, data, ok, writes>>

ReducedColumnFirst(k, j) == get_column(other.u[k], 0)

\* lines 245, 251, 257: the column stored as column j of the basis of mode k
ReducedColumn(k, j) == get_column(other.u[k], j)

\* lines 243-246, 249-252, 255-258
ColumnLoop(k) ==
    /\ op = "progressive_rank_reduction"
    /\ pc = LoopPc[k]
    /\ IF ik < J[k]
       THEN /\ _u' = [_u EXCEPT ![k] = set_column(_u[k], ik, ReducedColumn(k, ik))]
            /\ ik' = ik + 1
            /\ pc' = pc
       ELSE /\ pc' = AfterLoop(k)
            /\ ik' = 0
            /\ _u' = _u
    /\ UNCHANGED <<op, J, I, K, arg, other, _core, i, oob, calls, data, ok, writes>>

\* the n-th cell the loop nest  j3, j1, j2  (outermost first) visits in a tensor
\* of extents dims
CellAt(n, dims) ==
    <<(n \div dims[2]) % dims[1], n % dims[2], n \div (dims[1] * dims[2])>>

NumCells(dims) == dims[1] * dims[2] * dims[3]

\* lines 264-273
ReduceCore ==
    /\ op = "progressive_rank_reduction"
    /\ pc = "core"
    /\ IF ik < NumCells(J)
       THEN /\ _core' = [_core EXCEPT ![CellAt(ik, J)] = other.core[CellAt(ik, J)]]
            /\ ik' = ik + 1
            /\ pc' = pc
       ELSE /\ pc' = "done"
            /\ UNCHANGED <<_core, ik>>
    /\ UNCHANGED <<op, J, I, K, arg, other, _u, i, oob, calls, data, ok, writes>>

NextRank ==
    \/ CheckRankAssertions
    \/ \E k \in Modes : ColumnLoop(k)
    \/ ReduceCore

SpecRank == InitRank /\ [][NextRank]_vars

\* C5: progressive_rank_reduction with J_k <= K_k for every mode is accepted and,
\* when it has returned, column j of the destination basis k is column j of the
\* source basis k for every j < J_k, and the destination core is the leading
\* J1 x J2 x J3 block of the source core; with J_k > K_k for some mode the call
\* fails its precondition.
C5_RankReduction ==
    (op = "progressive_rank_reduction" /\ pc # "assert") =>
        /\ (pc = "failed") <=> (\E k \in Modes : J[k] > K[k])
        /\ pc = "done" =>
               /\ \A k \in Modes : \A j \in Indices(J[k]) : \A r \in Indices(I[k]) :
                      _u[k][r][j] = other.u[k][r][j]
               /\ \A x \in Cells(J) : _core[x] = other.core[x]

\* a finished reduction that dropped a column and kept more than one
C5_Witness ==
    /\ op = "progressive_rank_reduction"
    /\ pc = "done"
    /\ \E k \in Modes : 1 < J[k] /\ J[k] < K[k]
    /\ \E k \in Modes : 1 < I[k]

----------------------------------------------------------------------------
(* hosvd, derive_core and decomposition.                                   *)
(* The three matricizations of hosvd (lines 126-142) only prepare the      *)
(* solver's input; the solver (lapack_svd) is outside this file, so a      *)
(* solver call is a step that returns either flag and leaves some matrix.  *)
(* derive_core is modelled with the arguments decomposition binds at line  *)
(* 117: core_ is _core and U1_, U2_, U3_ are _u1, _u2, _u3.                *)

Seeds == {0, 1}

\* a tensor3 of extents dims with values in -1 .. 1
DataTensor(n, dims) == [x \in Cells(dims) |-> ((n + x[1] + 2 * x[2] + 3 * x[3]) % 3) - 1]

\* a rows x cols matrix with values in 0 .. 2
PatternMatrix(n, k, rows, cols) ==
    [r \in Indices(rows) |-> [c \in Indices(cols) |-> (n + k + r + 2 * c) % 3]]

\* what lapack_svd::compute_and_overwrite_input leaves in the I_k x I_k matrix
\* it was given
SolverOutput(n, k) == PatternMatrix(n, k, I[k], I[k])

\* matrix< I_k, J_k, T >::operator=( matrix< I_k, I_k, double > ): the leading
\* J_k columns
Truncate(m, rows, cols) == [r \in Indices(rows) |-> [c \in Indices(cols) |-> m[r][c]]]

NoWrites == [x \in Cells(J) |-> 0]

\* derive_core( data_, _core, _u1, _u2, _u3 ) called on its own
InitDerive ==
    /\ op = "derive_core"
    /\ J \in Ranks
    /\ I \in [Modes -> 1..MaxRows]
    /\ K = I
    /\ other = <<>>
    /\ \E n \in Seeds : data = DataTensor(n, I)
    /\ \E n \in [Modes -> Seeds] : _u = [k \in Modes |-> PatternMatrix(n[k], k, I[k], J[k])]
    /\ _core = DstCore(J)
    /\ arg = [data |-> data, U |-> _u]
    /\ pc = "cell"
    /\ ik = 0
    /\ i = 0
    /\ oob = FALSE
    /\ calls = NoIndex
    /\ ok = <<>>
    /\ writes = NoWrites

\* hosvd( data_ ) and decomposition( data_ ), on a tensor with J_k <= I_k
InitHosvd ==
    /\ op \in {"hosvd", "decomposition"}
    /\ J \in Ranks
    /\ I \in [Modes -> 1..MaxRows]
    /\ \A k \in Modes : J[k] <= I[k]
    /\ K = I
    /\ other = <<>>
    /\ \E n \in Seeds : data = DataTensor(n, I)
    /\ _u = DstBases(I, J)
    /\ _core = DstCore(J)
    /\ arg = <<>>
    /\ pc = "svd1"
    /\ ik = 0
    /\ i = 0
    /\ oob = FALSE
    /\ calls = NoIndex
    /\ ok = <<FALSE>>
    /\ writes = NoWrites

SvdPc == <<"svd1", "svd2", "svd3">>

\* lines 150-153, 155-158, 160-163: the solver call on the unfolding of mode k,
\* which returns a flag, and the assignment of what it left to the basis
SvdStep(k) ==
    /\ op \in {"hosvd", "decomposition"}
    /\ pc = SvdPc[k]
    /\ \E flag \in BOOLEAN, n \in Seeds :
           /\ ok' = Append(ok, flag)
           /\ _u' = [_u EXCEPT ![k] = Truncate(SolverOutput(n, k), I[k], J[k])]
    /\ IF k < 3
       THEN pc' = SvdPc[k + 1] /\ arg' = arg
       ELSE IF op = "hosvd"
            THEN pc' = "done" /\ arg' = arg
            ELSE pc' = "cell" /\ arg' = [data |-> data, U |-> _u']
    /\ UNCHANGED <<op, J, I, K, other, _core, ik, i, oob, calls, data, writes>>

TermFirstColumn(j, x) ==
    _u[1][x[1]][j[1]] * _u[2][x[2]][j[2]] * _u[3][x[3]][0] * data[x]

\* line 219: the product added to sum_i1_i2_i3 for core index j and data index x
Term(j, x) ==
    _u[1][x[1]][j[1]] * _u[2][x[2]][j[2]] * _u[3][x[3]][j[3]] * data[x]

\* lines 212-222: sum_i1_i2_i3 after the first n iterations of the loop nest
\* i3, i1, i2
RECURSIVE Accumulate(_, _)
Accumulate(j, n) ==
    IF n = 0 THEN 0 ELSE Accumulate(j, n - 1) + Term(j, CellAt(n - 1, I))

\* lines 206-226: one iteration of the loop nest j3, j1, j2
DeriveCell ==
    /\ op \in {"derive_core", "decomposition"}
    /\ pc = "cell"
    /\ IF ik < NumCells(J)
       THEN /\ _core' = [_core EXCEPT ![CellAt(ik, J)] =
                                          Accumulate(CellAt(ik, J), NumCells(I))]
            /\ writes' = [writes EXCEPT ![CellAt(ik, J)] = @ + 1]
            /\ ik' = ik + 1
            /\ pc' = pc
       ELSE /\ pc' = "done"
            /\ UNCHANGED <<_core, writes, ik>>
    /\ UNCHANGED <<op, J, I, K, arg, other, _u, i, oob, calls, data, ok>>

NextDecomp ==
    \/ \E k \in Modes : SvdStep(k)
    \/ DeriveCell

InitDecomp == InitDerive \/ InitHosvd

SpecDecomp == InitDecomp /\ [][NextDecomp]_vars

\* the solver calls made so far that returned failure
FailedModes == { k \in Modes : k + 1 <= Len(ok) /\ ~ok[k + 1] }

\* C7: once a solver call of hosvd or decomposition has returned failure, the
\* operation ends in an error, the basis of that mode is not the solver's output
\* and no core is derived.
C7_SolverFailureSurfaced ==
    (op \in {"hosvd", "decomposition"} /\ FailedModes # {}) =>
        /\ pc = "error"
        /\ \A k \in FailedModes : _u[k] = DstBasis(I[k], J[k])
        /\ _core = DstCore(J)

\* the contraction of C8 for core index j: the sum over i1, i2, i3 of
\* U1[i1,j1] * U2[i2,j2] * U3[i3,j3] * data[i1,i2,i3]
Contraction(j) ==
    SumOver(Indices(I[1]), [a \in Indices(I[1]) |->
        SumOver(Indices(I[2]), [b \in Indices(I[2]) |->
            SumOver(Indices(I[3]), [c \in Indices(I[3]) |->
                arg.U[1][a][j[1]] * arg.U[2][b][j[2]] * arg.U[3][c][j[3]]
                    * arg.data[<<a, b, c>>]])])])

\* C8: while derive_core runs, data and the bases stay as they were given and no
\* core cell is assigned twice; when it has returned, every core cell was
\* assigned once and holds the contraction of data with the three bases.
C8_DeriveCore ==
    (op \in {"derive_core", "decomposition"} /\ pc \in {"cell", "done"}) =>
        /\ data = arg.data
        /\ _u = arg.U
        /\ \A x \in Cells(J) : writes[x] <= 1
        /\ pc = "done" =>
               \A x \in Cells(J) : writes[x] = 1 /\ _core[x] = Contraction(x)

\* derive_core has returned a core of several cells, not all zero, from a data
\* tensor of several cells
C8_Witness ==
    /\ op = "derive_core"
    /\ pc = "done"
    /\ J[3] > 1
    /\ NumCells(I) > 2
    /\ \E x \in Cells(J) : _core[x] # 0

====
